---- MODULE Spec2Model ----
(***************************************************************************)
(* io-dump (src/lib.rs): Dump decorates an I/O handle and logs every read  *)
(* and write as a text record to a sink; DumpRead parses that text back    *)
(* into packets.                                                           *)
(*                                                                         *)
(* Text is a sequence of one-character strings; payload bytes are the      *)
(* integers 0..255.                                                        *)
(***************************************************************************)
EXTENDS Integers, Sequences, FiniteSets, TLC

VARIABLES
    upstream,   \* Dump.upstream: the operations the wrapped handle has served
    inner,      \* Dump.inner: None, or Some of the sink's text and the creation instant
    sinkKind,   \* how the sink U behaves on write (chunking, capacity)
    clock,      \* the latest reading of Instant::now(), as a Duration since the Dump was built
    rets,       \* what each call on Dump returned, in call order
    mark,       \* length of the sink text before the latest call
    source,     \* the lines of the text DumpRead was built on
    lines,      \* DumpRead.lines: the lines not yet consumed
    packets,    \* the packets DumpRead has yielded, in order
    outcome,    \* how the latest advance of DumpRead ended
    taken,      \* the lines the latest advance consumed
    errors,     \* how many advances have ended in an error
    flushed,    \* how many times flush has run on the sink
    input,      \* the Duration handed to millis
    output      \* what millis returned for it, <<>> before the call

vars == <<upstream, inner, sinkKind, clock, rets, mark,
          source, lines, packets, outcome, taken, errors, flushed, input, output>>

dumpVars == <<upstream, inner, sinkKind, clock, rets, mark, flushed>>
readVars == <<source, lines, packets, outcome, taken, errors>>
millisVars == <<input, output>>

\* ---------------------------------------------------------------- bounds

\* Calls made on one Dump.
MaxCalls == 2

\* Lines of a text handed to DumpRead.
MaxLines == 3

\* ------------------------------------------------------------- constants

LINE == 25
NANOS_PER_MILLI == 1000000
MILLIS_PER_SEC == 1000


\* ------------------------------------------------------------------ text

Min(a, b) == IF a < b THEN a ELSE b

DropFirst(s, n) == SubSeq(s, n + 1, Len(s))

Take(s, n) == SubSeq(s, 1, n)

DecDigits == <<"0", "1", "2", "3", "4", "5", "6", "7", "8", "9">>

HexDigits == DecDigits \o <<"A", "B", "C", "D", "E", "F">>

\* The characters of bytes 32..126, in order ("grave" stands for the grave
\* accent, byte 96, which a TLA+ string cannot hold).
Printable ==
    <<" ", "!", "\"", "#", "$", "%", "&", "'", "(", ")", "*", "+", ",", "-", ".", "/">>
    \o DecDigits \o
    <<":", ";", "<", "=", ">", "?", "@",
      "A", "B", "C", "D", "E", "F", "G", "H", "I", "J", "K", "L", "M",
      "N", "O", "P", "Q", "R", "S", "T", "U", "V", "W", "X", "Y", "Z",
      "[", "\\", "]", "^", "_", "grave",
      "a", "b", "c", "d", "e", "f", "g", "h", "i", "j", "k", "l", "m",
      "n", "o", "p", "q", "r", "s", "t", "u", "v", "w", "x", "y", "z",
      "{", "|", "}", "~">>

\* "{}" of an unsigned integer: its decimal digits.
RECURSIVE Display(_)
Display(n) ==
    IF n < 10 THEN <<DecDigits[n + 1]>>
    ELSE Display(n \div 10) \o <<DecDigits[(n % 10) + 1]>>

\* "{:02X}" of a byte.
UpperHex02(b) == <<HexDigits[(b \div 16) + 1], HexDigits[(b % 16) + 1]>>

\* "{:.*}" with precision 3 of (ms as f64 / 1000.0): the quotient is within
\* one ulp of ms/1000, far from a rounding boundary of the third decimal.
Fixed3(ms) ==
    Display(ms \div 1000) \o <<".">> \o
    <<DecDigits[((ms \div 100) % 10) + 1],
      DecDigits[((ms \div 10) % 10) + 1],
      DecDigits[(ms % 10) + 1]>>

\* -------------------------------------------------------------- Duration

Duration(s, n) == [secs |-> s, nanos |-> n]

DurationAdd(a, b) ==
    LET n == a.nanos + b.nanos
        per == MILLIS_PER_SEC * NANOS_PER_MILLI
    IN  IF n >= per THEN Duration(a.secs + b.secs + 1, n - per)
        ELSE Duration(a.secs + b.secs, n)

\* Instant - Instant
DurationSub(a, b) ==
    IF a.nanos >= b.nanos THEN Duration(a.secs - b.secs, a.nanos - b.nanos)
    ELSE Duration(a.secs - b.secs - 1, a.nanos + MILLIS_PER_SEC * NANOS_PER_MILLI - b.nanos)

\* A u64 is written in base 1000 (the integers of the checker stop at
\* 2^31 - 1): seven digits, the least significant first.
Base == 1000

U64_MAX == <<615, 551, 709, 73, 744, 446, 18>>

RECURSIVE Limbs(_, _)
Limbs(n, k) == IF k = 0 THEN <<>> ELSE <<n % Base>> \o Limbs(n \div Base, k - 1)

\* n as u64
U64(n) == Limbs(n, Len(U64_MAX))

\* A u64 below 10^9 as an integer.
AsInt(u) == u[1] + Base * u[2] + Base * Base * u[3]

\* a * b + carry and a + carry, digit by digit, with one more digit for what
\* runs over.
RECURSIVE MulLimbs(_, _, _)
MulLimbs(a, b, carry) ==
    IF a = <<>> THEN <<carry>>
    ELSE LET x == Head(a) * b + carry
         IN  <<x % Base>> \o MulLimbs(Tail(a), b, x \div Base)

RECURSIVE AddLimbs(_, _)
AddLimbs(a, carry) ==
    IF a = <<>> THEN <<carry>>
    ELSE LET x == Head(a) + carry
         IN  <<x % Base>> \o AddLimbs(Tail(a), x \div Base)

\* Whether a value of eight digits is above u64::MAX.
Exceeds(raw) ==
    LET top == U64_MAX \o <<0>>
    IN  \E i \in 1..Len(raw) :
            /\ raw[i] > top[i]
            /\ \A j \in (i + 1)..Len(raw) : raw[j] = top[j]

saturating_mul(a, b) ==
    LET raw == MulLimbs(a, b, 0)
    IN  IF Exceeds(raw) THEN U64_MAX ELSE Take(raw, Len(U64_MAX))

saturating_add(a, b) ==
    LET raw == AddLimbs(a, b)
    IN  IF Exceeds(raw) THEN U64_MAX ELSE Take(raw, Len(U64_MAX))

\* Mutant: the sub-second part rounded down.
millisRoundingDown(duration) ==
    LET ms == duration.nanos \div NANOS_PER_MILLI
    IN  saturating_add(saturating_mul(duration.secs, MILLIS_PER_SEC), ms)

\* millis(duration), duration.secs a u64: the sub-second part is rounded up
\* in u32 (the sum stays below 2^31).
millis(duration) ==
    LET ms == (duration.nanos + NANOS_PER_MILLI - 1) \div NANOS_PER_MILLI
    IN  saturating_add(saturating_mul(duration.secs, MILLIS_PER_SEC), ms)

\* millis((Instant::now() - self.now)), Instant::now() being t
Elapsed(now, t) ==
    LET d == DurationSub(t, now)
    IN  AsInt(millis(Duration(U64(d.secs), d.nanos)))

\* ------------------------------------------------------------------ sink

Ok(n) == [ok |-> TRUE, n |-> n]
Err(e) == [ok |-> FALSE, err |-> e]

\* The sinks: one that takes every write whole (a Vec, a file), one that
\* takes at most size bytes per write (a pipe, a socket), and one that holds
\* size bytes in all and, once full, takes 0 bytes (a slice) or fails (a disk).
Whole == [kind |-> "whole", size |-> 0, full |-> "zero"]
Chunked(n) == [kind |-> "chunked", size |-> n, full |-> "zero"]
Bounded(n, f) == [kind |-> "bounded", size |-> n, full |-> f]

\* U::write(buf) on a sink holding text d: how many bytes it takes.
SinkWrite(d, buf) ==
    LET k == CASE sinkKind.kind = "whole" -> Len(buf)
               [] sinkKind.kind = "chunked" -> Min(Len(buf), sinkKind.size)
               [] sinkKind.kind = "bounded" -> Min(Len(buf), sinkKind.size - Len(d))
    IN  IF Len(buf) > 0 /\ k = 0 /\ sinkKind.full = "err"
        THEN Err("StorageFull")
        ELSE Ok(k)

\* A sink position: the text so far and the first error met ("" for none).
Pos(d, e) == [dump |-> d, err |-> e]

\* write!(self.dump, ...): Write::write_fmt, which is write_all: write until
\* the buffer is empty, Ok(0) is the error WriteZero.
RECURSIVE WriteAll(_, _)
WriteAll(d, buf) ==
    IF buf = <<>> THEN Pos(d, "")
    ELSE LET w == SinkWrite(d, buf)
         IN  IF ~w.ok THEN Pos(d, w.err)
             ELSE IF w.n = 0 THEN Pos(d, "WriteZero")
             ELSE WriteAll(d \o Take(buf, w.n), DropFirst(buf, w.n))

\* try!(write!(self.dump, ...)) after the writes that led to position p.
TryWriteFmt(p, buf) == IF p.err # "" THEN p ELSE WriteAll(p.dump, buf)

\* try!(self.dump.write(buf)): one write, its byte count dropped.
TryWrite(p, buf) ==
    IF p.err # "" THEN p
    ELSE LET w == SinkWrite(p.dump, buf)
         IN  IF ~w.ok THEN Pos(p.dump, w.err)
             ELSE Pos(p.dump \o Take(buf, w.n), "")

\* ----------------------------------------------------------------- Inner

\* Mutant: the hex column without the blank slots.
RECURSIVE WriteHexColumnUnpadded(_, _, _)
WriteHexColumnUnpadded(p, line, i) ==
    IF i >= Len(line) \/ p.err # "" THEN p
    ELSE WriteHexColumnUnpadded(TryWriteFmt(p, UpperHex02(line[i + 1]) \o <<" ">>),
                                line, i + 1)

\* The hex column: for i in 0..LINE, a blank slot or "{:02X} ".
RECURSIVE WriteHexColumn(_, _, _)
WriteHexColumn(p, line, i) ==
    IF i >= LINE \/ p.err # "" THEN p
    ELSE WriteHexColumn(
            IF i >= Len(line)
            THEN TryWriteFmt(p, <<" ", " ", " ">>)
            ELSE TryWriteFmt(p, UpperHex02(line[i + 1]) \o <<" ">>),
            line, i + 1)

\* The match on one byte of the ascii column.
WriteAsciiByte(p, byte) ==
    CASE byte = 0 -> TryWriteFmt(p, <<"\\", "0">>)
      [] byte = 9 -> TryWriteFmt(p, <<"\\", "t">>)
      [] byte = 10 -> TryWriteFmt(p, <<"\\", "n">>)
      [] byte = 13 -> TryWriteFmt(p, <<"\\", "r">>)
      [] byte >= 32 /\ byte <= 126 -> TryWrite(p, <<" ", Printable[byte - 31]>>)
      [] OTHER -> TryWriteFmt(p, <<"\\", "?">>)

RECURSIVE WriteAsciiColumn(_, _, _)
WriteAsciiColumn(p, line, i) ==
    IF i > Len(line) \/ p.err # "" THEN p
    ELSE WriteAsciiColumn(WriteAsciiByte(p, line[i]), line, i + 1)

\* Inner::write_data_line
write_data_line(p, line) ==
    LET hex == WriteHexColumn(p, line, 0)
        gap == TryWriteFmt(hex, <<" ", " ", " ", " ">>)
        ascii == WriteAsciiColumn(gap, line, 1)
    IN  TryWriteFmt(ascii, <<"\n">>)

\* Mutant: the loop as a do-while, a first row written whatever the payload.
RECURSIVE WriteRowsAtLeastOnce(_, _, _)
WriteRowsAtLeastOnce(p, data, pos) ==
    LET end == Min(pos + LINE, Len(data))
        q == write_data_line(p, SubSeq(data, pos + 1, end))
    IN  IF end >= Len(data) \/ q.err # "" THEN q
        ELSE WriteRowsAtLeastOnce(q, data, end)

\* The while loop of write_packet: one row for each LINE bytes from pos on.
RECURSIVE WriteRows(_, _, _)
WriteRows(p, data, pos) ==
    IF pos >= Len(data) \/ p.err # "" THEN p
    ELSE LET end == Min(pos + LINE, Len(data))
         IN  WriteRows(write_data_line(p, SubSeq(data, pos + 1, end)), data, end)

\* Mutant: the markers as the crate documentation gives them.
MarkerAsDocumented(dir) ==
    IF dir = "Read" THEN <<"<", "-", " ", " ">> ELSE <<"-", ">", " ", " ">>

\* The first write of write_packet: the direction of the header line.
Marker(dir) == IF dir = "Write" THEN <<"<", "-", " ", " ">> ELSE <<"-", ">", " ", " ">>

\* Inner::write_packet on the sink text d, at instant t
write_packet(d, now, t, dir, data) ==
    LET elapsed == Elapsed(now, t)
        p1 == WriteAll(d, Marker(dir))
        p2 == TryWriteFmt(p1, Fixed3(elapsed) \o <<"s", " ", " ">> \o Display(Len(data))
                              \o <<" ", "b", "y", "t", "e", "s">>)
        p3 == TryWriteFmt(p2, <<"\n">>)
        p4 == WriteRows(p3, data, 0)
    IN  TryWriteFmt(p4, <<"\n">>)

\* -------------------------------------------------------------- DumpRead

\* BufReader::lines(): the text cut at each "\n", a "\r" before it dropped;
\* a last line without "\n" is a line too.
StripCR(line) ==
    IF line # <<>> /\ line[Len(line)] = "\r" THEN Take(line, Len(line) - 1) ELSE line

Lines(text) ==
    LET ends == {i \in 1..Len(text) : text[i] = "\n"}
        last == IF ends = {} THEN 0 ELSE CHOOSE i \in ends : \A j \in ends : j <= i
        stops == IF last < Len(text) THEN ends \cup {Len(text) + 1} ELSE ends
        stop(k) == CHOOSE i \in stops : Cardinality({j \in stops : j < i}) = k - 1
    IN  [k \in 1..Cardinality(stops) |->
            StripCR(SubSeq(text, IF k = 1 THEN 1 ELSE stop(k - 1) + 1, stop(k) - 1))]

\* head.split(|v| v == ' ').filter(|v| !v.is_empty()).collect()
RECURSIVE SplitTokens(_, _, _)
SplitTokens(line, i, cur) ==
    IF i > Len(line) THEN (IF cur = <<>> THEN <<>> ELSE <<cur>>)
    ELSE IF line[i] = " "
         THEN (IF cur = <<>> THEN <<>> ELSE <<cur>>) \o SplitTokens(line, i + 1, <<>>)
         ELSE SplitTokens(line, i + 1, Append(cur, line[i]))

Tokens(line) == SplitTokens(line, 1, <<>>)

IsDecDigit(c) == \E i \in 1..10 : DecDigits[i] = c

DecValue(c) == (CHOOSE i \in 1..10 : DecDigits[i] = c) - 1

\* char::to_digit(16): both cases of the letters.
LowerHex == <<"a", "b", "c", "d", "e", "f">>

IsHexDigit(c) == (\E i \in 1..16 : HexDigits[i] = c) \/ (\E i \in 1..6 : LowerHex[i] = c)

HexValue(c) ==
    IF \E i \in 1..16 : HexDigits[i] = c
    THEN (CHOOSE i \in 1..16 : HexDigits[i] = c) - 1
    ELSE (CHOOSE i \in 1..6 : LowerHex[i] = c) + 9

\* u8::from_str_radix(c, 16) of a two-character string: a leading "+" is a
\* sign, every other character must be a digit of the radix.
from_str_radix(c) ==
    LET digits == IF c[1] = "+" THEN DropFirst(c, 1) ELSE c
    IN  IF \A i \in 1..Len(digits) : IsHexDigit(digits[i])
        THEN IF Len(digits) = 2
             THEN Ok(HexValue(digits[1]) * 16 + HexValue(digits[2]))
             ELSE Ok(HexValue(digits[1]))
        ELSE Err("InvalidDigit")

\* str::parse::<f64>() of a decimal without exponent: an optional sign, digits
\* with at most one ".", at least one digit.  The value is returned in
\* thousandths; the elapsed tokens of this model hold at most three decimals.
RECURSIVE DecimalThousandths(_, _, _, _)
DecimalThousandths(s, i, acc, scale) ==
    \* scale: 0 before the ".", else the number of decimals read so far + 1
    IF i > Len(s)
    THEN CASE scale <= 1 -> acc * 1000
           [] scale = 2 -> acc * 100
           [] scale = 3 -> acc * 10
           [] OTHER -> acc
    ELSE IF s[i] = "." THEN DecimalThousandths(s, i + 1, acc, 1)
    ELSE IF scale >= 4 THEN DecimalThousandths(s, i + 1, acc, scale)
    ELSE DecimalThousandths(s, i + 1, acc * 10 + DecValue(s[i]), IF scale = 0 THEN 0 ELSE scale + 1)

parse_f64(s) ==
    LET neg == s # <<>> /\ s[1] = "-"
        body == IF s # <<>> /\ (s[1] = "+" \/ s[1] = "-") THEN DropFirst(s, 1) ELSE s
        dots == {i \in 1..Len(body) : body[i] = "."}
        digs == {i \in 1..Len(body) : IsDecDigit(body[i])}
    IN  IF digs # {} /\ Cardinality(dots) <= 1 /\ Cardinality(dots) + Cardinality(digs) = Len(body)
        THEN [ok |-> TRUE, neg |-> neg, thousandths |-> DecimalThousandths(body, 1, 0, 0)]
        ELSE Err("ParseFloatError")

\* IEEE-754 binary64, for x = the double nearest to m/1000 (what parse
\* returns for a decimal of m thousandths): (x * 1000.0) as u64.
\*   x = M / 2^e with 2^52 <= M < 2^53, M = m * 2^e / 1000 rounded to nearest
\*   (ties to even), so x * 1000 = m - r / 2^e exactly, r = m * 2^e - 1000 * M;
\*   the product is rounded to the nearest double, then truncated.  It falls
\*   to the double below m, and truncates to m - 1, when r / 2^e exceeds half
\*   the gap between m and the double below it.
RECURSIVE Log2(_)
Log2(m) == IF m < 2 THEN 0 ELSE 1 + Log2(m \div 2)

RECURSIVE Pow2(_)
Pow2(n) == IF n = 0 THEN 1 ELSE 2 * Pow2(n - 1)

RECURSIVE Pow2Mod(_, _)
Pow2Mod(n, q) == IF n = 0 THEN 1 % q ELSE (2 * Pow2Mod(n - 1, q)) % q

\* The exponent j of m/1000: 2^j <= m/1000 < 2^(j+1).
RECURSIVE ExpUp(_)
ExpUp(m) == IF m < 2000 THEN 0 ELSE 1 + ExpUp(m \div 2)

RECURSIVE ExpDown(_)
ExpDown(m) == IF m >= 1000 THEN 0 ELSE 1 + ExpDown(m * 2)

Exponent(m) == IF m >= 1000 THEN ExpUp(m) ELSE 0 - ExpDown(m)

f64_mul_1000_as_u64(m) ==
    IF m = 0 THEN 0
    ELSE LET k == Log2(m)
             j == Exponent(m)
             e == 52 - j
             R == ((m % 2000) * Pow2Mod(e, 2000)) % 2000
             rem == R % 1000
             odd == R \div 1000
             r == IF rem < 500 THEN rem
                  ELSE IF rem > 500 THEN rem - 1000
                  ELSE IF odd = 0 THEN 500 ELSE 0 - 500
             half == IF m > Pow2(k) THEN Pow2(k - j - 1) ELSE Pow2(k - j - 2)
         IN  IF r > half THEN m - 1 ELSE m

Packet(dir, ms, data) == [direction |-> dir, elapsed |-> ms, data |-> data]

NoPacket == Packet("", 0, <<>>)

\* What read_packet returns (or that it panicked), and the lines left.
Result(kind, why, pkt, rest) == [kind |-> kind, why |-> why, packet |-> pkt, rest |-> rest]

\* The innermost loop of read_packet: the hex groups of one row, from pos on.
RECURSIVE ScanRow(_, _, _)
ScanRow(line, pos, data) ==
    IF pos + 2 > Len(line)
    THEN [kind |-> "Panic", why |-> "byte index out of range", data |-> data]
    ELSE LET c == SubSeq(line, pos + 1, pos + 2)
         IN  IF c = <<" ", " ">> THEN [kind |-> "Ok", why |-> "", data |-> data]
             ELSE LET byte == from_str_radix(c)
                  IN  IF ~byte.ok
                      THEN [kind |-> "Err", why |-> "could not parse byte", data |-> data]
                      ELSE ScanRow(line, pos + 3, Append(data, byte.n))

\* Mutant: the end of input inside a body is the end of the packets.
RECURSIVE ReadBodyNeedingTerminator(_, _, _, _)
ReadBodyNeedingTerminator(dir, elapsed, ls, data) ==
    IF ls = <<>> THEN Result("None", "", NoPacket, <<>>)
    ELSE IF Head(ls) = <<>>
         THEN Result("Some", "",
                     Packet(dir, IF elapsed.neg THEN 0
                                 ELSE f64_mul_1000_as_u64(elapsed.thousandths), data),
                     Tail(ls))
         ELSE LET row == ScanRow(Head(ls), 0, data)
              IN  IF row.kind = "Ok"
                  THEN ReadBodyNeedingTerminator(dir, elapsed, Tail(ls), row.data)
                  ELSE Result(row.kind, row.why, NoPacket, Tail(ls))

\* Mutant: the line after the terminator is read with the record.
RECURSIVE ReadBodyGreedy(_, _, _, _)
ReadBodyGreedy(dir, elapsed, ls, data) ==
    LET line == IF ls = <<>> THEN <<>> ELSE Head(ls)
        rest == IF ls = <<>> THEN <<>> ELSE Tail(ls)
    IN  IF line = <<>>
        THEN Result("Some", "",
                    Packet(dir, IF elapsed.neg THEN 0
                                ELSE f64_mul_1000_as_u64(elapsed.thousandths), data),
                    IF rest = <<>> THEN <<>> ELSE Tail(rest))
        ELSE LET row == ScanRow(line, 0, data)
             IN  IF row.kind = "Ok" THEN ReadBodyGreedy(dir, elapsed, rest, row.data)
                 ELSE Result(row.kind, row.why, NoPacket, rest)

\* The body loop of read_packet: rows up to an empty line or the end of input.
RECURSIVE ReadBody(_, _, _, _)
ReadBody(dir, elapsed, ls, data) ==
    LET line == IF ls = <<>> THEN <<>> ELSE Head(ls)
        rest == IF ls = <<>> THEN <<>> ELSE Tail(ls)
    IN  IF line = <<>>
        THEN Result("Some", "",
                    Packet(dir, IF elapsed.neg THEN 0
                                ELSE f64_mul_1000_as_u64(elapsed.thousandths), data),
                    rest)
        ELSE LET row == ScanRow(line, 0, data)
             IN  IF row.kind = "Ok" THEN ReadBody(dir, elapsed, rest, row.data)
                 ELSE Result(row.kind, row.why, NoPacket, rest)

\* Mutant: a record whose rows do not hold the header's count of bytes is an
\* error.
RECURSIVE read_packetCheckingCount(_)
read_packetCheckingCount(ls) ==
    IF ls = <<>> THEN Result("None", "", NoPacket, <<>>)
    ELSE LET head == Tokens(Head(ls))
             rest == Tail(ls)
         IN  IF Len(head) = 0 \/ head[1] = <<"/", "/">> THEN read_packetCheckingCount(rest)
             ELSE IF Len(head) # 4 THEN Result("Panic", "assert_eq!(4, head.len())", NoPacket, rest)
             ELSE IF head[1] # <<"<", "-">> /\ head[1] # <<"-", ">">>
                  THEN Result("Err", "invalid direction format", NoPacket, rest)
             ELSE LET elapsed == parse_f64(Take(head[2], Len(head[2]) - 1))
                  IN  IF ~elapsed.ok THEN Result("Panic", "parse().unwrap()", NoPacket, rest)
                      ELSE LET r == ReadBody(IF head[1] = <<"<", "-">> THEN "Write" ELSE "Read",
                                             elapsed, rest, <<>>)
                           IN  IF r.kind = "Some" /\ Display(Len(r.packet.data)) # head[3]
                               THEN Result("Err", "byte count", NoPacket, r.rest)
                               ELSE r

\* DumpRead::read_packet on the lines ls
RECURSIVE read_packet(_)
read_packet(ls) ==
    IF ls = <<>> THEN Result("None", "", NoPacket, <<>>)
    ELSE LET head == Tokens(Head(ls))
             rest == Tail(ls)
         IN  IF Len(head) = 0 \/ head[1] = <<"/", "/">> THEN read_packet(rest)
             ELSE IF Len(head) # 4 THEN Result("Panic", "assert_eq!(4, head.len())", NoPacket, rest)
             ELSE IF head[1] # <<"<", "-">> /\ head[1] # <<"-", ">">>
                  THEN Result("Err", "invalid direction format", NoPacket, rest)
             ELSE LET elapsed == parse_f64(Take(head[2], Len(head[2]) - 1))
                  IN  IF ~elapsed.ok THEN Result("Panic", "parse().unwrap()", NoPacket, rest)
                      ELSE ReadBody(IF head[1] = <<"<", "-">> THEN "Write" ELSE "Read",
                                    elapsed, rest, <<>>)

\* Iterator::next: read_packet().unwrap()
next(ls) ==
    LET r == read_packet(ls)
    IN  [read_packet |-> r.kind,
         why |-> r.why,
         item |-> IF r.kind = "Some" \/ r.kind = "None" THEN r.kind ELSE "panic",
         packet |-> r.packet,
         rest |-> r.rest]

\* DumpRead::new(text).collect(): the packets up to the end of input, or up to
\* the advance that panics.
RECURSIVE Collect(_)
Collect(ls) ==
    LET r == next(ls)
    IN  CASE r.item = "Some" ->
                LET more == Collect(r.rest)
                IN  [packets |-> <<r.packet>> \o more.packets, end |-> more.end]
          [] OTHER -> [packets |-> <<>>, end |-> r.item]

\* ------------------------------------------------------------------ Dump

\* Option<Inner<U>>
Some(d, t) == [some |-> TRUE, dump |-> d, now |-> t]

None == [some |-> FALSE, dump |-> <<>>, now |-> Duration(0, 0)]

\* Mutant: a failed read is logged as a packet of no byte.
readLoggingFailure(dst, res, t) ==
    IF ~inner.some THEN [inner |-> inner, ret |-> res, flushed |-> 0]
    ELSE LET n == IF res.ok THEN res.n ELSE 0
             p == write_packet(inner.dump, inner.now, t, "Read", Take(dst, n))
         IN  [inner |-> Some(p.dump, inner.now),
              ret |-> IF ~res.ok THEN res ELSE IF p.err # "" THEN Err(p.err) ELSE Ok(n),
              flushed |-> 0]

\* <Dump as Read>::read, the wrapped read having put buf in dst and returned
\* res, at instant t: the new inner and what the call returns.
read(dst, res, t) ==
    IF ~res.ok THEN [inner |-> inner, ret |-> res, flushed |-> 0]
    ELSE IF ~inner.some THEN [inner |-> inner, ret |-> Ok(res.n), flushed |-> 0]
    ELSE LET p == write_packet(inner.dump, inner.now, t, "Read", Take(dst, res.n))
         IN  [inner |-> Some(p.dump, inner.now),
              ret |-> IF p.err # "" THEN Err(p.err) ELSE Ok(res.n),
              flushed |-> 0]

\* Mutant: the whole of src is logged, not its first n bytes.
writeLoggingWholeBuffer(src, res, t) ==
    IF ~res.ok THEN [inner |-> inner, ret |-> res, flushed |-> 0]
    ELSE IF ~inner.some THEN [inner |-> inner, ret |-> Ok(res.n), flushed |-> 0]
    ELSE LET p == write_packet(inner.dump, inner.now, t, "Write", src)
         IN  [inner |-> Some(p.dump, inner.now),
              ret |-> IF p.err # "" THEN Err(p.err) ELSE Ok(res.n),
              flushed |-> 0]

\* Mutant: without a sink, the whole of src is reported as written.
writeNoopTakingAll(src, res, t) ==
    IF ~res.ok THEN [inner |-> inner, ret |-> res, flushed |-> 0]
    ELSE IF ~inner.some THEN [inner |-> inner, ret |-> Ok(Len(src)), flushed |-> 0]
    ELSE LET p == write_packet(inner.dump, inner.now, t, "Write", Take(src, res.n))
         IN  [inner |-> Some(p.dump, inner.now),
              ret |-> IF p.err # "" THEN Err(p.err) ELSE Ok(res.n),
              flushed |-> 0]

\* Mutant: the elapsed time is counted from the record before.
writeResettingEpoch(src, res, t) ==
    IF ~res.ok THEN [inner |-> inner, ret |-> res, flushed |-> 0]
    ELSE IF ~inner.some THEN [inner |-> inner, ret |-> Ok(res.n), flushed |-> 0]
    ELSE LET p == write_packet(inner.dump, inner.now, t, "Write", Take(src, res.n))
         IN  [inner |-> Some(p.dump, t),
              ret |-> IF p.err # "" THEN Err(p.err) ELSE Ok(res.n),
              flushed |-> 0]

\* Mutant: the result of write_packet is dropped.
writeIgnoringSinkError(src, res, t) ==
    IF ~res.ok THEN [inner |-> inner, ret |-> res, flushed |-> 0]
    ELSE IF ~inner.some THEN [inner |-> inner, ret |-> Ok(res.n), flushed |-> 0]
    ELSE LET p == write_packet(inner.dump, inner.now, t, "Write", Take(src, res.n))
         IN  [inner |-> Some(p.dump, inner.now), ret |-> Ok(res.n), flushed |-> 0]

\* <Dump as Write>::write, the wrapped write of src having returned res
write(src, res, t) ==
    IF ~res.ok THEN [inner |-> inner, ret |-> res, flushed |-> 0]
    ELSE IF ~inner.some THEN [inner |-> inner, ret |-> Ok(res.n), flushed |-> 0]
    ELSE LET p == write_packet(inner.dump, inner.now, t, "Write", Take(src, res.n))
         IN  [inner |-> Some(p.dump, inner.now),
              ret |-> IF p.err # "" THEN Err(p.err) ELSE Ok(res.n),
              flushed |-> 0]

\* Mutant: the sink is flushed with the wrapped handle.
flushAlsoSink(res) ==
    [inner |-> inner, ret |-> res, flushed |-> IF res.ok /\ inner.some THEN 1 ELSE 0]

\* <Dump as Write>::flush, the wrapped flush having returned res: upstream
\* is flushed, the sink is not.
flush(res) == [inner |-> inner, ret |-> res, flushed |-> 0]

\* ----------------------------------------------------------- environment

\* The caller's buffers: the example of the crate's tests, and one longer
\* than a row that holds every class of byte of the ascii column.
ShortBuf == <<80, 82, 73>>

LongBuf ==
    <<0, 9, 10, 13, 32, 126, 127, 255, 65, 63, 31, 43, 47, 92, 34, 200, 1, 128,
      48, 70, 97, 102, 45, 60, 62, 115>>

Buffers == {ShortBuf, LongBuf}

\* The byte counts the wrapped handle reports for a buffer: none, all but the
\* last byte, and the whole of a buffer longer than a row.
UpCounts(buf) ==
    {n \in 0..Len(buf) : n = 0 \/ n = Len(buf) - 1 \/ (n = Len(buf) /\ n > LINE)}

UpResults(buf) == {Ok(n) : n \in UpCounts(buf)} \cup {Err("ConnectionReset")}

\* The time that passes between two readings of the clock: none, or a second
\* and a little more than half a millisecond.
Ticks == {Duration(0, 0), Duration(1, 500001)}

\* The sinks a Dump is built on: the bounded ones are full within the first
\* row, or at its ascii column.
SinkKinds == {Whole, Chunked(1), Bounded(20, "err"), Bounded(100, "zero")}

\* One operation served by the wrapped handle: its result, and the caller's
\* buffer as the operation left it.
Served(op, res, buf) == [op |-> op, res |-> res, buf |-> buf]

Idle == [read_packet |-> "", why |-> "", item |-> "", packet |-> NoPacket]

Init ==
    /\ upstream = <<>>
    /\ \/ inner = None /\ sinkKind = Whole
       \/ inner = Some(<<>>, Duration(0, 0)) /\ sinkKind \in SinkKinds
    /\ clock = Duration(0, 0)
    /\ rets = <<>>
    /\ mark = 0
    /\ source = <<>>
    /\ lines = <<>>
    /\ packets = <<>>
    /\ outcome = Idle
    /\ taken = <<>>
    /\ errors = 0
    /\ flushed = 0
    /\ input = Duration(U64(0), 0)
    /\ output = <<>>

Call(op, res, buf, t, after) ==
    /\ Len(rets) < MaxCalls
    /\ clock' = IF res.ok /\ inner.some /\ op # "flush" THEN t ELSE clock
    /\ upstream' = Append(upstream, Served(op, res, buf))
    /\ mark' = IF ~inner.some THEN 0 ELSE Len(inner.dump)
    /\ inner' = after.inner
    /\ rets' = Append(rets, after.ret)
    /\ flushed' = flushed + after.flushed
    /\ UNCHANGED <<sinkKind, readVars, millisVars>>

Read ==
    \E dst \in Buffers, dt \in Ticks :
        \E res \in UpResults(dst) :
            LET t == DurationAdd(clock, dt)
            IN  Call("read", res, dst, t, read(dst, res, t))

Write ==
    \E src \in Buffers, dt \in Ticks :
        \E res \in UpResults(src) :
            LET t == DurationAdd(clock, dt)
            IN  Call("write", res, src, t, write(src, res, t))

Flush ==
    \E res \in {Ok(0), Err("ConnectionReset")} :
        Call("flush", res, <<>>, clock, flush(res))

Next == Read \/ Write \/ Flush

Spec == Init /\ [][Next]_vars

\* ------------------------------------------------------- DumpRead, alone

Blank == <<>>
Spaces == <<" ", " ">>
CommentLine == <<"/", "/", " ", "c">>
CommentNoSpace == <<"/", "/", "c">>
HeadWrite == <<"<", "-", " ", " ", "0", ".", "0", "0", "1", "s", " ", " ", "2", " ", "b", "y", "t", "e", "s">>
HeadRead == <<"-", ">", " ", " ", "1", ".", "0", "0", "1", "s", " ", " ", "0", " ", "b", "y", "t", "e", "s">>
HeadThreeTokens == <<"<", "-", " ", " ", "0", ".", "0", "0", "1", "s", " ", " ", "2">>
HeadBadMarker == <<"<", ">", " ", " ", "0", ".", "0", "0", "1", "s", " ", " ", "2", " ", "b", "y", "t", "e", "s">>
HeadBadElapsed == <<"<", "-", " ", " ", "0", ".", "0", "x", "1", "s", " ", " ", "2", " ", "b", "y", "t", "e", "s">>
Row == <<"4", "1", " ", "4", "2", " ", " ", " ", " ", " ", "A", " ", "B">>
RowBadHex == <<"4", "Z", " ", "4", "2", " ", " ", " ", " ", " ", "?", " ", "B">>
RowPlus == <<"+", "A", " ", "4", "2", " ", " ", " ", " ", " ", "?", " ", "B">>
RowCut == <<"4", "1", " ", "4">>

LinePool ==
    {Blank, Spaces, CommentLine, CommentNoSpace, HeadWrite, HeadRead, HeadThreeTokens,
     HeadBadMarker, HeadBadElapsed, Row, RowBadHex, RowPlus, RowCut}

Dumps == UNION {[1..n -> LinePool] : n \in 0..MaxLines}

\* The text of a dump: every line ended by "\n".
RECURSIVE Text(_)
Text(d) == IF d = <<>> THEN <<>> ELSE Head(d) \o <<"\n">> \o Text(Tail(d))

\* DumpRead::new
new(io) == Lines(io)

InitRead ==
    /\ upstream = <<>>
    /\ inner = None
    /\ sinkKind = Whole
    /\ clock = Duration(0, 0)
    /\ rets = <<>>
    /\ mark = 0
    /\ \E d \in Dumps : source = new(Text(d))
    /\ lines = source
    /\ packets = <<>>
    /\ outcome = Idle
    /\ taken = <<>>
    /\ errors = 0
    /\ flushed = 0
    /\ input = Duration(U64(0), 0)
    /\ output = <<>>

\* One advance of the iterator.
Advance ==
    LET r == next(lines)
    IN  /\ outcome' = [read_packet |-> r.read_packet, why |-> r.why,
                       item |-> r.item, packet |-> r.packet]
        /\ lines' = r.rest
        /\ taken' = Take(lines, Len(lines) - Len(r.rest))
        /\ packets' = IF r.item = "Some" THEN Append(packets, r.packet) ELSE packets
        /\ errors' = IF r.item = "panic" THEN errors + 1 ELSE errors
        /\ UNCHANGED <<source, dumpVars, millisVars>>

NextRead == Advance

SpecRead == InitRead /\ [][NextRead]_vars

\* ---------------------------------------------------------- millis, alone

\* The whole seconds of the durations handed to millis: small ones, the two
\* on each side of the point where the product leaves u64, and the largest.
SecsPool ==
    {U64(0), U64(1), U64(4294967),
     <<550, 709, 73, 744, 446, 18, 0>>,
     <<551, 709, 73, 744, 446, 18, 0>>,
     <<552, 709, 73, 744, 446, 18, 0>>,
     U64_MAX}

\* Their sub-second parts: on and around whole milliseconds, around the 615
\* milliseconds that u64::MAX ends in, and the largest.
NanosPool ==
    {0, 1, 999999, 1000000, 1000001, 614000001, 615000000, 615000001,
     999000000, 999000001, 999999999}

InitMillis ==
    /\ upstream = <<>>
    /\ inner = None
    /\ sinkKind = Whole
    /\ clock = Duration(0, 0)
    /\ rets = <<>>
    /\ mark = 0
    /\ source = <<>>
    /\ lines = <<>>
    /\ packets = <<>>
    /\ outcome = Idle
    /\ taken = <<>>
    /\ errors = 0
    /\ flushed = 0
    /\ \E s \in SecsPool, n \in NanosPool : input = Duration(s, n)
    /\ output = <<>>

\* The call of millis.
Millis ==
    /\ output = <<>>
    /\ output' = millis(input)
    /\ UNCHANGED <<input, dumpVars, readVars>>

NextMillis == Millis

SpecMillis == InitMillis /\ [][NextMillis]_vars

\* ========================================================== the claims

\* ------------------------------------------------- the record, as specified

Called == rets # <<>>

LastRet == rets[Len(rets)]

LastServed == upstream[Len(upstream)]

\* The latest call was a read or a write for which the wrapped handle
\* reported a byte count.
Transferred == Called /\ LastServed.op # "flush" /\ LastServed.res.ok

DirectionOf(op) == IF op = "read" THEN "Read" ELSE "Write"

\* The bytes a served read or write transferred: the first n of the buffer.
DataOf(served) == Take(served.buf, served.res.n)

\* The text the latest call appended to the sink.
Appended == DropFirst(inner.dump, mark)

HeaderText(dir, ms, n) ==
    (IF dir = "Write" THEN <<"<", "-">> ELSE <<"-", ">">>) \o <<" ", " ">>
    \o Fixed3(ms) \o <<"s", " ", " ">> \o Display(n) \o <<" ", "b", "y", "t", "e", "s">>

\* The hex column of a row: LINE slots of three characters.
HexColumn(row) ==
    [i \in 1..(3 * LINE) |->
        LET slot == (i - 1) \div 3
            at == (i - 1) % 3
        IN  IF slot >= Len(row) \/ at = 2 THEN " "
            ELSE UpperHex02(row[slot + 1])[at + 1]]

AsciiPair(b) ==
    CASE b = 0 -> <<"\\", "0">>
      [] b = 9 -> <<"\\", "t">>
      [] b = 10 -> <<"\\", "n">>
      [] b = 13 -> <<"\\", "r">>
      [] b >= 32 /\ b <= 126 -> <<" ", Printable[b - 31]>>
      [] OTHER -> <<"\\", "?">>

AsciiColumn(row) ==
    [i \in 1..(2 * Len(row)) |-> AsciiPair(row[(i + 1) \div 2])[((i - 1) % 2) + 1]]

RowCount(n) == (n + LINE - 1) \div LINE

\* Row r of a payload: its bytes (r - 1) * LINE + 1 .. r * LINE.
RowOf(data, r) == SubSeq(data, (r - 1) * LINE + 1, Min(r * LINE, Len(data)))

RECURSIVE RowsText(_, _)
RowsText(data, r) ==
    IF r > RowCount(Len(data)) THEN <<>>
    ELSE HexColumn(RowOf(data, r)) \o <<" ", " ", " ", " ">> \o AsciiColumn(RowOf(data, r))
         \o <<"\n">> \o RowsText(data, r + 1)

\* The complete text of one record.
RecordText(dir, ms, data) ==
    HeaderText(dir, ms, Len(data)) \o <<"\n">> \o RowsText(data, 1) \o <<"\n">>

\* The elapsed time the latest record was written with.
ElapsedNow == Elapsed(inner.now, clock)

\* ------------------------------------------------------------------ C1

\* The reads and writes served so far, and whether each call returned Ok.
Transfers == SelectSeq(upstream, LAMBDA u : u.op # "flush")

AllTransfersOk == \A i \in 1..Len(rets) : upstream[i].op # "flush" => rets[i].ok

\* C1: round trip.  When every read and write made through a capturing Dump
\* has returned Ok, parsing the sink's text with DumpRead yields, and ends
\* normally after, exactly one packet per call, in call order, each with the
\* direction and the payload bytes of its call.
C1_RoundTrip ==
    (inner.some /\ AllTransfersOk) =>
        LET parsed == Collect(new(inner.dump))
        IN  /\ parsed.end = "None"
            /\ Len(parsed.packets) = Len(Transfers)
            /\ \A i \in 1..Len(Transfers) :
                    /\ parsed.packets[i].direction = DirectionOf(Transfers[i].op)
                    /\ parsed.packets[i].data = DataOf(Transfers[i])

\* Two successful calls, one of no byte and one of more than a row, parsed back.
C1_Witness ==
    /\ inner.some /\ AllTransfersOk /\ Len(Transfers) = 2
    /\ \E i, j \in 1..2 : Len(DataOf(Transfers[i])) = 0 /\ Len(DataOf(Transfers[j])) > LINE
    /\ Len(Collect(new(inner.dump)).packets) = 2

\* ------------------------------------------------------------------ C2

\* C2: one record per call.  In capture mode, a read or write for which the
\* wrapped handle reports n bytes, and whose record the sink takes (the call
\* returns Ok), appends exactly: one header line with the byte count n, the
\* rows whose hex columns encode the first n bytes of the buffer, and one
\* blank line; no other line of it is blank.
C2_OneRecordPerCall ==
    (inner.some /\ Transferred /\ LastRet.ok) =>
        LET n == LastServed.res.n
            data == Take(LastServed.buf, n)
            text == Lines(Appended)
        IN  /\ Appended # <<>> /\ Appended[Len(Appended)] = "\n"
            /\ Len(text) = RowCount(n) + 2
            /\ text[1] = HeaderText(DirectionOf(LastServed.op), ElapsedNow, n)
            /\ \A r \in 1..RowCount(n) :
                    /\ Len(text[r + 1]) >= 3 * LINE
                    /\ Take(text[r + 1], 3 * LINE) = HexColumn(RowOf(data, r))
            /\ text[Len(text)] = <<>>
            /\ \A k \in 1..(Len(text) - 1) : text[k] # <<>>

\* A call that transferred fewer bytes than its buffer holds, after another call.
C2_Witness ==
    /\ inner.some /\ Transferred /\ LastRet.ok /\ Len(rets) = 2 /\ mark > 0
    /\ LastServed.res.n > 0 /\ LastServed.res.n < Len(LastServed.buf)
    /\ Len(Lines(Appended)) = 3

\* ------------------------------------------------------------------ C3

\* C3: when the wrapped read or write fails, the call on Dump returns that
\* error, and the call leaves the sink (and the whole of inner) as it was,
\* with or without a sink.
C3_UpstreamErrorPassesThrough ==
    [][(upstream' # upstream /\ LastServed'.op # "flush" /\ ~LastServed'.res.ok)
        => (LastRet' = LastServed'.res /\ inner' = inner)]_vars

\* A failed transfer on a capturing Dump whose sink already holds a record.
C3_Witness ==
    /\ Called /\ LastServed.op # "flush" /\ ~LastServed.res.ok
    /\ inner.some /\ inner.dump # <<>>
    /\ LastRet = Err("ConnectionReset")

\* ------------------------------------------------------------------ C4

\* C4: whenever a read or write on a capturing Dump returns Ok, the text that
\* call appended to the sink is the complete record, whatever the sink.
C4_NoPartialRecordOnSuccess ==
    (inner.some /\ Transferred /\ LastRet.ok) =>
        Appended = RecordText(DirectionOf(LastServed.op), ElapsedNow, DataOf(LastServed))

\* ------------------------------------------------------------------ C5

\* Whether the sink failed a write of the latest call's record: write_packet
\* run again from the text the sink held before the call.
SinkFailed ==
    write_packet(Take(inner.dump, mark), inner.now, clock,
                 DirectionOf(LastServed.op), DataOf(LastServed)).err # ""

\* C5: when the wrapped read or write succeeds and a write of the record to
\* the sink fails, the call on Dump returns an error, although the wrapped
\* handle has served the transfer.
C5_SinkErrorFailsTheCall ==
    (inner.some /\ Transferred /\ SinkFailed) => (~LastRet.ok /\ LastServed.res.ok)

\* A transfer of some bytes whose record the sink cut short.
C5_Witness ==
    /\ inner.some /\ Transferred /\ SinkFailed
    /\ LastServed.res.n > 0
    /\ ~LastRet.ok
    /\ Len(inner.dump) > mark

\* ------------------------------------------------------------------ C6

\* C6: a read or write of 0 bytes in capture mode, on a sink that takes the
\* record, appends a header line with "0 bytes" and the blank line, no row;
\* DumpRead decodes that text to one packet of the call's direction with
\* empty data.
C6_ZeroBytesStillLogged ==
    (inner.some /\ Transferred /\ LastRet.ok /\ LastServed.res.n = 0) =>
        /\ Appended = HeaderText(DirectionOf(LastServed.op), ElapsedNow, 0) \o <<"\n", "\n">>
        /\ Tokens(Lines(Appended)[1])[3] = <<"0">>
        /\ LET r == next(new(Appended))
           IN  /\ r.item = "Some"
               /\ r.packet.direction = DirectionOf(LastServed.op)
               /\ r.packet.data = <<>>
               /\ next(r.rest).item = "None"

\* A read of 0 bytes (the end of the stream) logged after another record.
C6_Witness ==
    /\ inner.some /\ Transferred /\ LastRet.ok /\ LastServed.res.n = 0
    /\ LastServed.op = "read" /\ mark > 0
    /\ Len(Appended) > 0

\* --------------------------------------------------- lines, as specified

IsBlank(line) == \A i \in 1..Len(line) : line[i] = " "

\* A comment line: its first characters other than spaces are "//".
IsComment(line) ==
    \E i \in 1..(Len(line) - 1) :
        /\ line[i] = "/" /\ line[i + 1] = "/"
        /\ \A j \in 1..(i - 1) : line[j] = " "

\* The index in ls of the first line that is neither blank nor a comment, the
\* header line of the record, or 0.
HeaderIndex(ls) ==
    LET heads == {i \in 1..Len(ls) : ~IsBlank(ls[i]) /\ ~IsComment(ls[i])}
    IN  IF heads = {} THEN 0 ELSE CHOOSE i \in heads : \A j \in heads : i <= j

MalformedHeader(line) ==
    LET t == Tokens(line)
    IN  \/ Len(t) # 4
        \/ (t[1] # <<"<", "-">> /\ t[1] # <<"-", ">">>)
        \/ ~parse_f64(Take(t[2], Len(t[2]) - 1)).ok

\* An advance has been made, and it took a header line.
TookHeader == outcome.item # "" /\ HeaderIndex(taken) > 0

TakenHeader == taken[HeaderIndex(taken)]

\* ------------------------------------------------------------------ C7

\* C7: once an advance of DumpRead has ended in a format error, no later
\* advance yields a packet.
C7_NoPacketAfterError == [][errors > 0 => packets' = packets]_vars

\* ------------------------------------------------------------------ C8

\* C8: a header line that has not exactly four tokens, or a first token other
\* than "<-" and "->", or an elapsed token that does not parse, makes
\* read_packet return an error, and yields no packet.
C8_MalformedHeaderIsAnError ==
    (TookHeader /\ MalformedHeader(TakenHeader)) =>
        (outcome.read_packet = "Err" /\ outcome.item # "Some")

\* ------------------------------------------------------------------ C9

\* Whether a row holds, in a group of its hex column, a character that is
\* not a hexadecimal digit.
RECURSIVE NonHexAt(_, _)
NonHexAt(line, pos) ==
    IF pos + 2 > Len(line) THEN FALSE
    ELSE LET c == SubSeq(line, pos + 1, pos + 2)
         IN  IF c = <<" ", " ">> THEN FALSE
             ELSE IF ~IsHexDigit(c[1]) \/ ~IsHexDigit(c[2]) THEN TRUE
             ELSE NonHexAt(line, pos + 3)

\* C9: a row with a character that is not a hexadecimal digit where a digit
\* of a byte is expected makes read_packet return an error, and the advance
\* yields no packet.
C9_NonHexDigitIsAnError ==
    (/\ TookHeader /\ ~MalformedHeader(TakenHeader)
     /\ \E k \in (HeaderIndex(taken) + 1)..Len(taken) : NonHexAt(taken[k], 0))
        => (outcome.read_packet = "Err" /\ outcome.item # "Some")

\* ----------------------------------------------------------------- C10

\* The lines ls without the blank and comment lines that come before a
\* header line (a record runs from its header line to the next empty line).
RECURSIVE Strip(_, _)
Strip(ls, inRecord) ==
    IF ls = <<>> THEN <<>>
    ELSE IF inRecord THEN <<Head(ls)>> \o Strip(Tail(ls), Head(ls) # <<>>)
    ELSE IF IsBlank(Head(ls)) \/ IsComment(Head(ls)) THEN Strip(Tail(ls), FALSE)
    ELSE <<Head(ls)>> \o Strip(Tail(ls), TRUE)

\* C10: an advance that starts between records ends as it would on the same
\* lines with the blank and comment lines before header lines removed: the
\* same packet or the same end, and no error of their making.
C10_BlankAndCommentLinesIgnored ==
    (outcome.item # "" /\ errors = (IF outcome.item = "panic" THEN 1 ELSE 0)) =>
        LET r == next(Strip(taken \o lines, FALSE))
        IN  r.item = outcome.item /\ r.packet = outcome.packet

\* ----------------------------------------------------------------- C11

\* A line the reader passes over while it awaits a header: a blank one, or a
\* comment whose slashes stand alone.
PassedOver(line) ==
    IsBlank(line) \/ (Tokens(line) # <<>> /\ Tokens(line)[1] = <<"/", "/">>)

\* The bytes of the hex groups of the rows ls, after data.
RECURSIVE RowsData(_, _)
RowsData(ls, data) ==
    IF ls = <<>> THEN data
    ELSE RowsData(Tail(ls), ScanRow(Head(ls), 0, data).data)

\* The rows the latest advance took after its header line.
TakenRows ==
    SelectSeq(SubSeq(taken, HeaderIndex(taken) + 1, Len(taken)), LAMBDA l : l # <<>>)

\* The latest advance took a well-formed header and well-formed rows, and
\* the input ended before a terminator line.
EndedInBody ==
    /\ TookHeader /\ ~MalformedHeader(TakenHeader)
    /\ \A k \in 1..(HeaderIndex(taken) - 1) : PassedOver(taken[k])
    /\ \A k \in (HeaderIndex(taken) + 1)..Len(taken) :
            taken[k] # <<>> /\ ScanRow(taken[k], 0, <<>>).kind = "Ok"
    /\ lines = <<>>

\* The input ended while the latest advance still awaited a header.
EndedAwaitingHeader ==
    /\ outcome.item # "" /\ lines = <<>>
    /\ \A k \in 1..Len(taken) : PassedOver(taken[k])

\* C11: when the input ends inside a record's body, the advance yields the
\* packet with the bytes of the rows read so far and the next advance signals
\* the end of input; when it ends while a header is awaited, the advance
\* signals the end of input and yields no packet.
C11_EndOfInputCompletesTheRecord ==
    /\ EndedInBody =>
            /\ outcome.item = "Some"
            /\ outcome.packet.data = RowsData(TakenRows, <<>>)
            /\ next(lines).item = "None"
    /\ EndedAwaitingHeader => (outcome.item = "None" /\ outcome.packet = NoPacket)

\* A header and a row of two bytes, then the end of the input.
C11_Witness ==
    /\ EndedInBody /\ Len(TakenRows) > 0
    /\ outcome.item = "Some" /\ Len(outcome.packet.data) = 2

\* ----------------------------------------------------------------- C12

\* C12: the packet DumpRead decodes from the record a call has appended has
\* the elapsed milliseconds the record was written with.
C12_ElapsedRoundTrip ==
    (inner.some /\ Transferred /\ LastRet.ok) =>
        LET r == next(new(Appended))
        IN  r.item = "Some" /\ r.packet.elapsed = ElapsedNow

\* ----------------------------------------------------------------- C13

\* C13: on a Dump built by noop, every read, write and flush returns what the
\* wrapped handle returned for it, and leaves the Dump without a sink and
\* with no sink activity.
C13_NoopPassesThrough ==
    [][(~inner.some /\ upstream' # upstream) =>
        /\ inner' = None
        /\ flushed' = flushed
        /\ Len(rets') = Len(rets) + 1
        /\ LastRet' = LastServed'.res]_vars

\* A noop Dump that has passed on a count of bytes and an error.
C13_Witness ==
    /\ inner = None /\ Len(rets) = 2
    /\ \E i, j \in 1..2 :
            /\ rets[i].ok /\ rets[i].n > 0 /\ upstream[i].op # "flush"
            /\ ~rets[j].ok

\* ----------------------------------------------------------------- C14

\* C14: flush on a Dump returns the result of the wrapped handle's flush; it
\* appends nothing to the sink and does not flush the sink, with or without
\* a sink.
C14_FlushLeavesTheSink ==
    [][(upstream' # upstream /\ LastServed'.op = "flush") =>
        /\ inner' = inner
        /\ flushed' = flushed
        /\ LastRet' = LastServed'.res]_vars

\* A successful flush of a capturing Dump whose sink holds a record.
C14_Witness ==
    /\ Called /\ LastServed.op = "flush" /\ LastServed.res.ok
    /\ inner.some /\ inner.dump # <<>>
    /\ LastRet.ok /\ flushed = 0

\* ----------------------------------------------------------------- C15

\* ceil(r / 10^6)
CeilMillis(r) == IF r = 0 THEN 0 ELSE ((r - 1) \div NANOS_PER_MILLI) + 1

\* s * 1000 + c for c <= 1000, in eight digits: the digits of s moved up by
\* one, c below them.
ExactMillis(s, c) == <<c % Base>> \o Take(AddLimbs(s, c \div Base), Len(U64_MAX))

\* C15: millis of s seconds and r nanoseconds is s * 1000 + ceil(r / 10^6),
\* or u64::MAX when that is larger; the sum that is divided to round r up
\* stays below 2^32.
C15_MillisRoundsUpAndSaturates ==
    (output # <<>>) =>
        LET exact == ExactMillis(input.secs, CeilMillis(input.nanos))
        IN  /\ output = IF Exceeds(exact) THEN U64_MAX ELSE Take(exact, Len(U64_MAX))
            /\ (input.nanos + NANOS_PER_MILLI - 1) \div 65536 < 65536

\* The sum saturates where the product alone does not: 615 milliseconds and
\* one nanosecond over the largest product.
C15_Witness ==
    /\ output = U64_MAX
    /\ input = Duration(<<551, 709, 73, 744, 446, 18, 0>>, 615000001)

\* ----------------------------------------------------------------- C16

\* The header lines among the lines ls of a sink's text.
HeaderLines(ls) ==
    SelectSeq(ls, LAMBDA l : Len(l) >= 2 /\ (Take(l, 2) = <<"<", "-">> \/ Take(l, 2) = <<"-", ">">>))

\* The elapsed time a header line states, in milliseconds.
WrittenElapsed(l) ==
    LET t == Tokens(l)[2]
    IN  DecimalThousandths(Take(t, Len(t) - 1), 1, 0, 0)

\* C16: the elapsed times of the records of one Dump never decrease in the
\* order of the sink's text, and neither do those of the packets DumpRead
\* decodes from it.
C16_ElapsedNeverDecreases ==
    (inner.some /\ AllTransfersOk) =>
        LET ls == new(inner.dump)
            heads == HeaderLines(ls)
            parsed == Collect(ls).packets
        IN  /\ Len(heads) = Len(Transfers)
            /\ Len(parsed) = Len(Transfers)
            /\ \A i \in 1..(Len(heads) - 1) :
                    WrittenElapsed(heads[i]) <= WrittenElapsed(heads[i + 1])
            /\ \A i \in 1..(Len(parsed) - 1) :
                    parsed[i].elapsed <= parsed[i + 1].elapsed

\* Two records, the second written later than the first.
C16_Witness ==
    /\ inner.some /\ AllTransfersOk /\ Len(Transfers) = 2
    /\ LET heads == HeaderLines(new(inner.dump))
       IN  Len(heads) = 2 /\ WrittenElapsed(heads[1]) < WrittenElapsed(heads[2])

\* ----------------------------------------------------------------- C17

\* Slot i (from 0) of a row's hex column.
Slot(line, i) == SubSeq(line, 3 * i + 1, 3 * i + 3)

C18_TwoCharactersPerByte ==
    (inner.some /\ Transferred /\ LastRet.ok) =>
        LET data == DataOf(LastServed)
            text == Lines(Appended)
        IN  \A r \in 1..RowCount(Len(data)) :
                /\ r + 1 <= Len(text)
                /\ DropFirst(text[r + 1], 3 * LINE + 4) = AsciiColumn(RowOf(data, r))

\* ----------------------------------------------------------------- C19

IsSuffix(a, b) == Len(a) <= Len(b) /\ a = DropFirst(b, Len(b) - Len(a))

\* C19: an advance yields at most one packet and only moves forward in the
\* input; an advance that yields a packet takes the lines up to the first
\* empty line after the header (or up to the end of the input), and no line
\* after it.
C19_OneRecordPerAdvance ==
    [][/\ Len(packets') <= Len(packets) + 1
       /\ IsSuffix(lines', lines)
       /\ (outcome'.item = "Some" =>
            /\ taken' \o lines' = lines
            /\ HeaderIndex(taken') > 0
            /\ \A k \in (HeaderIndex(taken') + 1)..(Len(taken') - 1) : taken'[k] # <<>>
            /\ (taken'[Len(taken')] = <<>> \/ lines' = <<>>))]_vars

\* A packet yielded at its terminator line, with a line of the input left.
C19_Witness ==
    /\ outcome.item = "Some" /\ Len(packets) = 1
    /\ taken[Len(taken)] = <<>> /\ Len(taken) = 2
    /\ lines # <<>>

\* ----------------------------------------------------------------- C20

\* A header line with the same marker and elapsed time, and the count c.
WithCount(line, c) ==
    LET t == Tokens(line)
    IN  t[1] \o <<" ", " ">> \o t[2] \o <<" ", " ">> \o c \o <<" ">> \o t[4]

\* C20: a packet's data are the bytes of the rows of its record, and the
\* advance yields the same packet whatever count the header line states.
C20_HeaderCountIsNotUsed ==
    (outcome.item = "Some") =>
        /\ outcome.packet.data = RowsData(TakenRows, <<>>)
        /\ \A c \in {<<"0">>, <<"2">>, <<"9", "9">>} :
                LET r == next(<<WithCount(TakenHeader, c)>> \o TakenRows)
                IN  r.item = "Some" /\ r.packet = outcome.packet

\* A header that states no byte, followed by a row of two.
C20_Witness ==
    /\ outcome.item = "Some"
    /\ Tokens(TakenHeader)[3] = <<"0">>
    /\ Len(outcome.packet.data) = 2

====
